---- MODULE Spec2Model ----
(***************************************************************************)
(* Model of server/scripts/generate_status_report_pptx.py: the markdown    *)
(* section parser, the bullet parser, the inline bold renderer and the     *)
(* Gantt timeline layout of create_timeline_slide.                         *)
(*                                                                         *)
(* Strings are sequences of one-character strings.  Characters that are    *)
(* not ASCII are named (EnDash, EmDash, BulletDot).                        *)
(***************************************************************************)
EXTENDS Integers, Sequences, FiniteSets, TLC

VARIABLES
    \* parse_bullet_items
    text, lines, items, current_item, pcB,
    \* parse_markdown_sections
    md_text, md_lines, sections, current_section, current_content, pcS,
    \* render_inline_bold
    rib_text, parts, runs, pcR,
    \* create_timeline_slide: the payload
    epic_groups, unlinked_milestones, all_milestones,
    \* create_timeline_slide: locals, the shapes put on the slide, the position
    pc, all_dates, min_date, max_date, padding_days, chart_start, chart_end,
    total_days, y_cursor, color_idx, shapes, eg_i, st_i, ms_i

varsB == <<text, lines, items, current_item, pcB>>
varsS == <<md_text, md_lines, sections, current_section, current_content, pcS>>
varsR == <<rib_text, parts, runs, pcR>>
varsIn == <<epic_groups, unlinked_milestones, all_milestones>>
varsBounds == <<all_dates, min_date, max_date, padding_days, chart_start, chart_end, total_days>>
varsLoop == <<y_cursor, color_idx, eg_i, st_i, ms_i>>
varsT == <<varsIn, varsBounds, varsLoop, pc, shapes>>
vars == <<varsB, varsS, varsR, varsT>>

(***************************************************************************)
(* Bounds of the model.                                                    *)
(***************************************************************************)
MaxLines == 3
MaxMdLines == 4
MaxBoldLen == 6
MaxEpics == 2

(***************************************************************************)
(* Characters and Python string primitives.                                *)
(***************************************************************************)
EnDash == "en-dash"
EmDash == "em-dash"
BulletDot == "bullet-dot"

\* str.strip() / \s: the whitespace characters of the model's alphabet
Whitespace == {" ", "\t", "\n"}

\* Python None is the empty option <<>>, a value v is <<v>>
None == <<>>
Some(v) == <<v>>

\* s[i:] with a 0-based start, as Python slices
SliceFrom(s, i) == IF i >= Len(s) THEN <<>> ELSE SubSeq(s, i + 1, Len(s))

\* s[2:-2]
SliceInner(s) == IF Len(s) <= 4 THEN <<>> ELSE SubSeq(s, 3, Len(s) - 2)

\* s.startswith(p)
StartsWith(s, p) == Len(s) >= Len(p) /\ SubSeq(s, 1, Len(p)) = p

\* s.endswith(p)
EndsWith(s, p) == Len(s) >= Len(p) /\ SubSeq(s, Len(s) - Len(p) + 1, Len(s)) = p

\* s.lstrip(chars)
RECURSIVE LStripChars(_, _)
LStripChars(s, chars) ==
    IF s # <<>> /\ Head(s) \in chars THEN LStripChars(Tail(s), chars) ELSE s

\* s.rstrip(chars)
RECURSIVE RStripChars(_, _)
RStripChars(s, chars) ==
    IF s # <<>> /\ s[Len(s)] \in chars
    THEN RStripChars(SubSeq(s, 1, Len(s) - 1), chars) ELSE s

\* s.strip()
Strip(s) == RStripChars(LStripChars(s, Whitespace), Whitespace)

\* s.split(sep) for a one-character separator: never empty, keeps empty pieces
RECURSIVE SplitAcc(_, _, _)
SplitAcc(s, sep, cur) ==
    IF s = <<>> THEN <<cur>>
    ELSE IF Head(s) = sep THEN <<cur>> \o SplitAcc(Tail(s), sep, <<>>)
    ELSE SplitAcc(Tail(s), sep, Append(cur, Head(s)))

Split(s, sep) == SplitAcc(s, sep, <<>>)

\* sep.join(pieces)
RECURSIVE Join(_, _)
Join(pieces, sep) ==
    IF pieces = <<>> THEN <<>>
    ELSE IF Len(pieces) = 1 THEN pieces[1]
    ELSE pieces[1] \o sep \o Join(Tail(pieces), sep)

\* all sequences over S of length 0..n
RECURSIVE SeqsUpTo(_, _)
SeqsUpTo(S, n) ==
    IF n = 0 THEN {<<>>}
    ELSE LET shorter == SeqsUpTo(S, n - 1)
         IN  shorter \cup {Append(q, x) : q \in {r \in shorter : Len(r) = n - 1}, x \in S}

\* t occurs in s as a contiguous piece
IsSubstring(t, s) ==
    \E i \in 1..(Len(s) + 1) : i + Len(t) - 1 <= Len(s) /\ SubSeq(s, i, i + Len(t) - 1) = t

(***************************************************************************)
(* parse_bullet_items                                                      *)
(***************************************************************************)
\* the three bullet markers of line 90
TopMarkers == {<<"-", " ">>, <<"*", " ">>, <<BulletDot, " ">>}

\* the three indented markers of line 107
SubMarkers == {<<" ", " ", "-", " ">>, <<" ", " ", "*", " ">>, <<" ", " ", BulletDot, " ">>}

IsTopBullet(stripped) == \E m \in TopMarkers : StartsWith(stripped, m)

IsSubBullet(stripped) == \E m \in SubMarkers : StartsWith(stripped, m)

\* the optional separator class [-–—:] of the bold-title regex
TitleSeparators == {"-", EnDash, EmDash, ":"}

\* re.match(r'\*\*(.+?)\*\*\s*[-–—:]?\s*(.*)', content): the lazy group takes the
\* shortest non-empty text that is followed by '**'; the tail never fails.
BoldCloses(content) ==
    {k \in 1..Len(content) : k + 4 <= Len(content)
                             /\ content[k + 3] = "*" /\ content[k + 4] = "*"}

BoldMatch(content) ==
    IF StartsWith(content, <<"*", "*">>) /\ BoldCloses(content) # {}
    THEN LET k == CHOOSE c \in BoldCloses(content) : \A d \in BoldCloses(content) : c <= d
             after == LStripChars(SliceFrom(content, k + 4), Whitespace)
             noSep == IF after # <<>> /\ Head(after) \in TitleSeparators
                      THEN Tail(after) ELSE after
         IN  [matched |-> TRUE,
              group1 |-> SubSeq(content, 3, k + 2),
              group2 |-> LStripChars(noSep, Whitespace)]
    ELSE [matched |-> FALSE, group1 |-> <<>>, group2 |-> <<>>]

\* lines 93-106: the item a top-level bullet line starts
NewItem(stripped) ==
    LET content == Strip(SliceFrom(stripped, 2))
        bold_match == BoldMatch(content)
    IN  IF bold_match.matched
        THEN [title |-> Strip(bold_match.group1),
              description |-> Strip(bold_match.group2),
              sub_items |-> <<>>]
        ELSE [title |-> content, description |-> <<>>, sub_items |-> <<>>]

\* line 86: the text the branches of the loop body look at
StrippedLine(line) == Strip(line)

\* line 109: the text of a sub-item
SubContent(stripped) == Strip(LStripChars(stripped, {" ", "-", BulletDot, "*"}))

\* a slip of lines 112-115: the continuation line replaces the description
AppendDescriptionOverwrite(description, stripped) == stripped

\* lines 112-115: a continuation line is joined to the description with a space
AppendDescription(description, stripped) ==
    IF description # <<>> THEN description \o <<" ">> \o stripped ELSE stripped

\* lines 86-115: one pass of the loop body; the result is the new (items, current_item)
BulletLineStep(line, its, cur) ==
    LET stripped == StrippedLine(line)
    IN  IF stripped = <<>> THEN [items |-> its, current_item |-> cur]
        ELSE IF IsTopBullet(stripped)
        THEN [items |-> IF cur # None THEN Append(its, cur[1]) ELSE its,
              current_item |-> Some(NewItem(stripped))]
        ELSE IF IsSubBullet(stripped)
        THEN IF cur # None
             THEN LET sub_content == SubContent(stripped)
                  IN  [items |-> its,
                       current_item |->
                          Some([cur[1] EXCEPT !.sub_items = Append(@, sub_content)])]
             ELSE [items |-> its, current_item |-> cur]
        ELSE IF cur # None
        THEN [items |-> its,
              current_item |->
                 Some([cur[1] EXCEPT !.description = AppendDescription(@, stripped)])]
        ELSE [items |-> its, current_item |-> cur]

\* the input lines the bullet parser is tried on
LaunchLine == <<"-", " ", "*", "*", "L", "a", "u", "n", "c", "h", "*", "*", " ", EnDash, " ", "s", "h", "i", "p", "p", "e", "d", " ", "v", "1">>
SubDetailLine == <<" ", " ", "-", " ", "s", "u", "b", " ", "d", "e", "t", "a", "i", "l">>
Sub2Line == <<" ", " ", "*", " ", "s", "2">>
MoreLine == <<"m", "o", "r", "e">>
StarLine == <<"*", " ", "b">>
DotLine == <<BulletDot, " ", "*", "*", "T", "*", "*", ":", " ", "d">>
BlankLine == <<" ">>

BulletLines == {LaunchLine, SubDetailLine, Sub2Line, MoreLine, StarLine, DotLine, BlankLine, <<>>}

BulletTexts == {Join(ls, <<"\n">>) : ls \in SeqsUpTo(BulletLines, MaxLines)}

IdleB ==
    /\ text = <<>> /\ lines = <<>> /\ items = <<>> /\ current_item = None /\ pcB = "idle"

\* lines 82-85: the call, up to the split of the text
PBI_Call ==
    /\ pcB = "start"
    /\ items' = <<>>
    /\ current_item' = None
    /\ lines' = Split(text, "\n")
    /\ pcB' = "loop"
    /\ UNCHANGED <<text, varsS, varsR, varsT>>

\* lines 85-115: one iteration of the loop
PBI_Line ==
    /\ pcB = "loop"
    /\ lines # <<>>
    /\ LET r == BulletLineStep(Head(lines), items, current_item)
       IN  /\ items' = r.items
           /\ current_item' = r.current_item
    /\ lines' = Tail(lines)
    /\ UNCHANGED <<text, pcB, varsS, varsR, varsT>>

\* lines 117-120: the last item is appended and the items are returned
PBI_Return ==
    /\ pcB = "loop"
    /\ lines = <<>>
    /\ items' = IF current_item # None THEN Append(items, current_item[1]) ELSE items
    /\ pcB' = "done"
    /\ UNCHANGED <<text, lines, current_item, varsS, varsR, varsT>>

IdleS ==
    /\ md_text = <<>> /\ md_lines = <<>> /\ sections = <<>> /\ current_section = None
    /\ current_content = <<>> /\ pcS = "idle"

IdleR ==
    /\ rib_text = <<>> /\ parts = <<>> /\ runs = <<>> /\ pcR = "idle"

\* the locals of create_timeline_slide before the call
UnsetT ==
    /\ all_dates = <<>> /\ min_date = 0 /\ max_date = 0 /\ padding_days = 0
    /\ chart_start = 0 /\ chart_end = 0 /\ total_days = 0
    /\ y_cursor = 0 /\ color_idx = 0 /\ eg_i = 0 /\ st_i = 0 /\ ms_i = 0
    /\ shapes = <<>>

IdleT ==
    /\ epic_groups = <<>> /\ unlinked_milestones = <<>> /\ all_milestones = <<>>
    /\ pc = "idle" /\ UnsetT

InitBullets ==
    /\ text \in BulletTexts
    /\ lines = <<>> /\ items = <<>> /\ current_item = None /\ pcB = "start"
    /\ IdleS /\ IdleR /\ IdleT

NextBullets == PBI_Call \/ PBI_Line \/ PBI_Return

SpecBullets == InitBullets /\ [][NextBullets]_vars

(***************************************************************************)
(* parse_markdown_sections                                                 *)
(***************************************************************************)
HeadingMarker == <<"#", "#", " ">>

\* line 67
IsHeading(line) == StartsWith(line, HeadingMarker)

\* line 70: the key a heading line opens
HeadingText(line) == Strip(SliceFrom(line, 3))

\* lines 68 and 75: 'if current_section' is false for None and for the empty string
IsSet(section) == section # None /\ section[1] # <<>>

\* a slip of lines 69 and 76: the body is stored without .strip()
SectionBodyRaw(content) == Join(content, <<"\n">>)

\* lines 69 and 76: '\n'.join(current_content).strip()
SectionBody(content) == Strip(Join(content, <<"\n">>))

\* sections[key] = body
Put(map, key, body) ==
    [k \in (DOMAIN map) \cup {key} |-> IF k = key THEN body ELSE map[k]]

\* the input lines the section parser is tried on
HeadingA == <<"#", "#", " ", "A">>
HeadingATrail == <<"#", "#", " ", "A", " ">>
HeadingB == <<"#", "#", " ", "B">>
HeadingEmpty == <<"#", "#", " ">>
NoHeadingC == <<"#", "#", "C">>
BodyX == <<"x">>
BodyY == <<" ", "y">>

SectionLines == {HeadingA, HeadingATrail, HeadingB, HeadingEmpty, NoHeadingC, BodyX, BodyY, <<>>}

SectionTexts == {Join(ls, <<"\n">>) : ls \in SeqsUpTo(SectionLines, MaxMdLines)}

\* lines 62-66: the call, up to the split of the text
PMS_Call ==
    /\ pcS = "start"
    /\ sections' = <<>>
    /\ current_section' = None
    /\ current_content' = <<>>
    /\ md_lines' = Split(md_text, "\n")
    /\ pcS' = "loop"
    /\ UNCHANGED <<md_text, varsB, varsR, varsT>>

\* lines 66-73: one iteration of the loop
PMS_Line ==
    /\ pcS = "loop"
    /\ md_lines # <<>>
    /\ LET line == Head(md_lines)
       IN  IF IsHeading(line)
           THEN /\ sections' = IF IsSet(current_section)
                               THEN Put(sections, current_section[1], SectionBody(current_content))
                               ELSE sections
                /\ current_section' = Some(HeadingText(line))
                /\ current_content' = <<>>
           ELSE /\ current_content' = Append(current_content, line)
                /\ UNCHANGED <<sections, current_section>>
    /\ md_lines' = Tail(md_lines)
    /\ UNCHANGED <<md_text, pcS, varsB, varsR, varsT>>

\* lines 75-78: the last section is closed and the map is returned
PMS_Return ==
    /\ pcS = "loop"
    /\ md_lines = <<>>
    /\ sections' = IF IsSet(current_section)
                   THEN Put(sections, current_section[1], SectionBody(current_content))
                   ELSE sections
    /\ pcS' = "done"
    /\ UNCHANGED <<md_text, md_lines, current_section, current_content, varsB, varsR, varsT>>

InitSections ==
    /\ md_text \in SectionTexts
    /\ md_lines = <<>> /\ sections = <<>> /\ current_section = None
    /\ current_content = <<>> /\ pcS = "start"
    /\ IdleB /\ IdleR /\ IdleT

NextSections == PMS_Call \/ PMS_Line \/ PMS_Return

SpecSections == InitSections /\ [][NextSections]_vars

(***************************************************************************)
(* render_inline_bold                                                      *)
(***************************************************************************)
\* the end of the match of \*\*[^*]+\*\* that starts at position i, 0 if none:
\* two stars, one or more characters that are no star, two stars
MatchEnd(s, i) ==
    IF /\ i + 2 <= Len(s)
       /\ s[i] = "*" /\ s[i + 1] = "*" /\ s[i + 2] # "*"
       /\ \E j \in (i + 3)..Len(s) : s[j] = "*"
    THEN LET j == CHOOSE c \in (i + 3)..Len(s) :
                     s[c] = "*" /\ \A d \in (i + 3)..Len(s) : s[d] = "*" => c <= d
         IN  IF j + 1 <= Len(s) /\ s[j + 1] = "*" THEN j + 1 ELSE 0
    ELSE 0

\* line 156: re.split(r'(\*\*[^*]+\*\*)', text) from position pos on: the text
\* before the leftmost match, the match, and the split of the rest
RECURSIVE ReSplitFrom(_, _)
ReSplitFrom(s, pos) ==
    LET starts == {i \in pos..Len(s) : MatchEnd(s, i) # 0}
    IN  IF starts = {} THEN <<SubSeq(s, pos, Len(s))>>
        ELSE LET i == CHOOSE c \in starts : \A d \in starts : c <= d
             IN  <<SubSeq(s, pos, i - 1), SubSeq(s, i, MatchEnd(s, i))>>
                    \o ReSplitFrom(s, MatchEnd(s, i) + 1)

ReSplit(s) == ReSplitFrom(s, 1)

\* line 158: the test that sends a part to the bold branch
LooksBold(part) == StartsWith(part, <<"*", "*">>) /\ EndsWith(part, <<"*", "*">>)

\* lines 158-166: the runs one part adds to the paragraph
PartRuns(part) ==
    IF LooksBold(part) THEN <<[text |-> SliceInner(part), bold |-> TRUE]>>
    ELSE IF part # <<>> THEN <<[text |-> part, bold |-> FALSE]>>
    ELSE <<>>

\* the input lines the renderer is tried on
BoldChars == {"*", "a", " "}
TwoBoldLine == <<"*", "*", "A", "*", "*", " ", "a", "n", "d", " ", "*", "*", "B", "*", "*">>

BoldTexts == SeqsUpTo(BoldChars, MaxBoldLen) \cup {TwoBoldLine}

\* line 156
RIB_Call ==
    /\ pcR = "start"
    /\ parts' = ReSplit(rib_text)
    /\ runs' = <<>>
    /\ pcR' = "loop"
    /\ UNCHANGED <<rib_text, varsB, varsS, varsT>>

\* lines 157-166: one iteration of the loop
RIB_Part ==
    /\ pcR = "loop"
    /\ parts # <<>>
    /\ runs' = runs \o PartRuns(Head(parts))
    /\ parts' = Tail(parts)
    /\ UNCHANGED <<rib_text, pcR, varsB, varsS, varsT>>

\* the end of the loop
RIB_Return ==
    /\ pcR = "loop"
    /\ parts = <<>>
    /\ pcR' = "done"
    /\ UNCHANGED <<rib_text, parts, runs, varsB, varsS, varsT>>

InitBold ==
    /\ rib_text \in BoldTexts
    /\ parts = <<>> /\ runs = <<>> /\ pcR = "start"
    /\ IdleB /\ IdleS /\ IdleT

NextBold == RIB_Call \/ RIB_Part \/ RIB_Return

SpecBold == InitBold /\ [][NextBold]_vars

(***************************************************************************)
(* Dates.  A date string is the triple <<year, month, day>> of the digits  *)
(* of its first ten characters 'YYYY-MM-DD'; the empty string is <<>>.     *)
(* Strings of this form compare as their triples do.                       *)
(***************************************************************************)
NoDate == <<>>

Years == 2023..2025

IsLeap(y) == (y % 4 = 0 /\ y % 100 # 0) \/ y % 400 = 0

DaysInMonth(y, m) ==
    IF m = 2 THEN (IF IsLeap(y) THEN 29 ELSE 28)
    ELSE IF m \in {4, 6, 9, 11} THEN 30 ELSE 31

RECURSIVE DaysBeforeMonth(_, _)
DaysBeforeMonth(y, m) ==
    IF m = 1 THEN 0 ELSE DaysBeforeMonth(y, m - 1) + DaysInMonth(y, m - 1)

DaysBeforeYear(y) == (y - 1) * 365 + (y - 1) \div 4 - (y - 1) \div 100 + (y - 1) \div 400

\* the day number of a calendar date (datetime.toordinal)
ToOrdinal(y, m, d) == DaysBeforeYear(y) + DaysBeforeMonth(y, m) + d

\* datetime.strptime(date_str[:10], '%Y-%m-%d') raises ValueError unless the
\* month and the day exist
CanParse(date_str) ==
    /\ date_str # NoDate
    /\ date_str[2] \in 1..12
    /\ date_str[3] \in 1..DaysInMonth(date_str[1], date_str[2])

\* datetime.strptime(date_str[:10], '%Y-%m-%d'), as a day number
ParseDate(date_str) == ToOrdinal(date_str[1], date_str[2], date_str[3])

\* the year and month of a day number (datetime.year, datetime.month)
YearMonthOf(n) ==
    CHOOSE ym \in Years \X (1..12) :
        /\ ToOrdinal(ym[1], ym[2], 1) <= n
        /\ n < ToOrdinal(ym[1], ym[2], 1) + DaysInMonth(ym[1], ym[2])

\* the order of two date strings as strings
DateStrLE(a, b) ==
    \/ a[1] < b[1]
    \/ a[1] = b[1] /\ a[2] < b[2]
    \/ a[1] = b[1] /\ a[2] = b[2] /\ a[3] <= b[3]

\* list.sort() of date strings
RECURSIVE InsertSorted(_, _)
InsertSorted(sorted, x) ==
    IF sorted = <<>> THEN <<x>>
    ELSE IF DateStrLE(x, Head(sorted)) THEN <<x>> \o sorted
    ELSE <<Head(sorted)>> \o InsertSorted(Tail(sorted), x)

RECURSIVE SortDates(_)
SortDates(ds) ==
    IF ds = <<>> THEN <<>> ELSE InsertSorted(SortDates(SubSeq(ds, 1, Len(ds) - 1)), ds[Len(ds)])

\* int(): truncation of the quotient a / b towards zero, b > 0
TruncDiv(a, b) == IF a >= 0 THEN a \div b ELSE -((-a) \div b)

Max(a, b) == IF a >= b THEN a ELSE b
Min(a, b) == IF a <= b THEN a ELSE b

(***************************************************************************)
(* create_timeline_slide: the lengths, in EMU (914400 to the inch)         *)
(***************************************************************************)
\* Inches(2.8)
label_width == 2560320
\* Inches(3.2)
chart_left == 2926080
\* Inches(9.5), also chart_width_in * 914400
chart_width == 8686800
\* Inches(1.3)
chart_top == 1188720
\* Inches(0.35)
row_height == 320040
\* Inches(0.30)
epic_header_height == 274320
\* Inches(0.18)
milestone_dot_size == 164592
\* a slip of lines 650 and 665: the cursor advanced by the size of the marker
milestone_row_height_short == milestone_dot_size
\* Inches(0.28), the height of a milestone row
milestone_row_height == 256032
\* Emu(int(914400 * 0.1)), the least width of a bar
min_bar_width == 91440
\* Emu(int(914400 * 1.2)), the width above which a bar carries its dates
bar_label_min_width == 1097280
\* Inches(0.22)
bar_height == 201168
\* the least padding of the chart, in days
min_padding_days == 7
\* the rows of the fallback table
table_cap == 15

\* a slip of line 581: the last colour of the palette is lost
bar_colors_short == <<"#6366f1", "#8b5cf6", "#a78bfa", "#7c3aed", "#4f46e5", "#818cf8", "#c084fc">>

bar_colors == <<"#6366f1", "#8b5cf6", "#a78bfa", "#7c3aed", "#4f46e5", "#818cf8", "#c084fc", "#a855f7">>

\* data.get('secondaryColor', '#E60CB3')
secondary_color == "#E60CB3"

\* a shape or text box put on the slide
Shape(kind, x, y, w, h, n, s) ==
    [kind |-> kind, x |-> x, y |-> y, w |-> w, h |-> h, n |-> n, s |-> s]

(***************************************************************************)
(* create_timeline_slide: the payloads the model is run on                 *)
(***************************************************************************)
Jan01 == <<2024, 1, 1>>
Jan31 == <<2024, 1, 31>>
May30 == <<2024, 5, 30>>
\* a string of the right form that names no day
Feb30 == <<2024, 2, 30>>

\* stages: both dates, the end before the start, no dates, an end that names no day
StageJan == [startDate |-> Jan01, endDate |-> Jan31]
StageBackwards == [startDate |-> Jan31, endDate |-> Jan01]
StageUndated == [startDate |-> NoDate, endDate |-> NoDate]
StageFeb30 == [startDate |-> Jan01, endDate |-> Feb30]

StageLists ==
    {<<>>, <<StageJan>>, <<StageBackwards, StageJan>>, <<StageUndated, StageJan>>,
     <<StageUndated>>, <<StageFeb30>>}

MilestoneMay == [targetDate |-> May30, status |-> "completed"]
MilestoneUndated == [targetDate |-> NoDate, status |-> "not-started"]
MilestoneFeb30 == [targetDate |-> Feb30, status |-> "in-progress"]

MilestoneLists == {<<>>, <<MilestoneUndated, MilestoneMay>>, <<MilestoneFeb30>>}

EpicSet == {[stages |-> st, milestones |-> ms] : st \in StageLists, ms \in MilestoneLists}

\* data['milestones']: none, or one more than the table holds
TopMilestoneLists ==
    {[i \in 1..n |-> [targetDate |-> Jan31, status |-> "completed"]] : n \in {0, table_cap + 1}}

\* the payloads of the chart on well-formed dates: a stage from the 8th to the
\* 25th (the bounds fall on the first days of two months), a stage with a
\* start only, and a run of stages longer than half the palette
Jan08 == <<2024, 1, 8>>
Jan25 == <<2024, 1, 25>>

StageEdge == [startDate |-> Jan08, endDate |-> Jan25]
StageOpen == [startDate |-> May30, endDate |-> NoDate]
StageRun == [i \in 1..5 |-> StageJan]

ChartStageLists ==
    {<<>>, <<StageEdge>>, <<StageUndated>>, <<StageUndated, StageJan>>,
     <<StageOpen, StageJan>>, <<StageBackwards>>, StageRun}

ChartMilestoneLists == {<<>>, <<MilestoneUndated, MilestoneMay>>}

ChartEpicSet ==
    {[stages |-> st, milestones |-> ms] : st \in ChartStageLists, ms \in ChartMilestoneLists}

(***************************************************************************)
(* create_timeline_slide                                                   *)
(***************************************************************************)
\* line 526: any(eg.get('stages') for eg in epic_groups)
has_gantt_data == \E e \in 1..Len(epic_groups) : epic_groups[e].stages # <<>>

\* lines 511-519: the accent bar and the title of the slide
SlideHead ==
    <<Shape("accent_bar", 0, 0, 12191695, 73152, 0, ""),
      Shape("title", 731520, 274320, 9144000, 548640, 0, "Timeline & Milestones")>>

\* a text box with a one-line note, lines 528-533 and 744-749
Note(message) == Shape("note", 914400, 1828800, 9144000, 914400, 0, message)

\* lines 741-783, _draw_milestone_table_fallback: the note or the table and its rows
FallbackShapes(milestones) ==
    IF milestones = <<>> THEN <<Note("No milestones defined for this project.")>>
    ELSE LET num_rows == Min(Len(milestones) + 1, table_cap + 1)
         IN  <<Shape("table", 365760, 1005840, 11338560, 320040 * num_rows, num_rows, "")>>
                \o [r \in 1..Min(Len(milestones), table_cap) |->
                      Shape("table_row", 365760, 0, 11338560, 0, r, milestones[r].status)]

\* lines 541-552: the date strings of the stages and milestones, in payload order
RECURSIVE StageDates(_)
StageDates(stages) ==
    IF stages = <<>> THEN <<>>
    ELSE (IF Head(stages).startDate # NoDate THEN <<Head(stages).startDate>> ELSE <<>>)
         \o (IF Head(stages).endDate # NoDate THEN <<Head(stages).endDate>> ELSE <<>>)
         \o StageDates(Tail(stages))

RECURSIVE MilestoneDates(_)
MilestoneDates(ms_list) ==
    IF ms_list = <<>> THEN <<>>
    ELSE (IF Head(ms_list).targetDate # NoDate THEN <<Head(ms_list).targetDate>> ELSE <<>>)
         \o MilestoneDates(Tail(ms_list))

RECURSIVE EpicDates(_)
EpicDates(egs) ==
    IF egs = <<>> THEN <<>>
    ELSE StageDates(Head(egs).stages) \o MilestoneDates(Head(egs).milestones)
         \o EpicDates(Tail(egs))

CollectDates == EpicDates(epic_groups) \o MilestoneDates(unlinked_milestones)

\* a slip of lines 562-564: the chart is not padded
PaddingNone(span) == 0

\* a slip of line 562: the padding rounded to the nearest day instead of cut
PaddingRounded(span) == Max(min_padding_days, (span * 5 + 50) \div 100)

\* line 562: max(7, int(span * 0.05))
Padding(span) == Max(min_padding_days, TruncDiv(span * 5, 100))

\* a slip of lines 578-579: the day offset divided as whole numbers
XOfDayWhole(d) == chart_left + chart_width * TruncDiv(d - chart_start, total_days)

\* lines 578-579 (and 682-683): the x of a day number.  The float product
\* chart_width_in * frac * 914400 is taken exactly.
XOfDay(d) == chart_left + TruncDiv(chart_width * (d - chart_start), total_days)

\* lines 576-579
date_to_x(date_str) == XOfDay(ParseDate(date_str))

\* a slip of line 680: the loop ends before chart_end instead of at it
RECURSIVE AxisTicksBeforeEnd(_, _)
AxisTicksBeforeEnd(y, m) ==
    LET current == ToOrdinal(y, m, 1)
    IN  IF current >= chart_end THEN <<>>
        ELSE (IF current >= chart_start
              THEN <<Shape("tick", XOfDay(current), chart_top + 228600, 9144, 54864, y * 100 + m, ""),
                     Shape("tick_label", XOfDay(current) - 274320, chart_top, 731520, 228600,
                           y * 100 + m, "")>>
              ELSE <<>>)
             \o (IF m = 12 THEN AxisTicksBeforeEnd(y + 1, 1) ELSE AxisTicksBeforeEnd(y, m + 1))

\* lines 679-702: the ticks and labels from the month (y, m) on
RECURSIVE AxisTicks(_, _)
AxisTicks(y, m) ==
    LET current == ToOrdinal(y, m, 1)
    IN  IF current > chart_end THEN <<>>
        ELSE (IF current >= chart_start
              THEN <<Shape("tick", XOfDay(current), chart_top + 228600, 9144, 54864, y * 100 + m, ""),
                     Shape("tick_label", XOfDay(current) - 274320, chart_top, 731520, 228600,
                           y * 100 + m, "")>>
              ELSE <<>>)
             \o (IF m = 12 THEN AxisTicks(y + 1, 1) ELSE AxisTicks(y, m + 1))

\* lines 670-702, _draw_month_axis
MonthAxis ==
    <<Shape("axis_line", chart_left, chart_top + 256032, chart_width, 9144, 0, "#cccccc")>>
       \o AxisTicks(YearMonthOf(chart_start)[1], YearMonthOf(chart_start)[2])

\* a slip of line 622: the width of a bar without its floor
BarWidthUnfloored(bar_left, bar_right) == bar_right - bar_left

\* line 622: max(bar_right - bar_left, Emu(int(914400 * 0.1)))
BarWidth(bar_left, bar_right) == Max(bar_right - bar_left, min_bar_width)

\* lines 714-720: the colour of a milestone marker
DotColor(status) ==
    IF status = "completed" THEN "#22c55e"
    ELSE IF status = "in-progress" THEN "#3b82f6"
    ELSE secondary_color

\* lines 705-738, _draw_milestone_dot, for a date that parses
MilestoneDot(ms, y) ==
    <<Shape("dot", date_to_x(ms.targetDate) - milestone_dot_size \div 2, y + 36576,
            milestone_dot_size, milestone_dot_size, 0, DotColor(ms.status)),
      Shape("ms_label", 548640, y, label_width - 182880, 228600, 0, "")>>

\* where the loops of lines 588-650 go on after an epic group, after its
\* stages and after its header
Goto(p, e, st, ms) == /\ pc' = p /\ eg_i' = e /\ st_i' = st /\ ms_i' = ms

AfterEpic(e) ==
    IF e < Len(epic_groups) THEN Goto("epic", e + 1, 0, 0) ELSE Goto("unlinked", e, 0, 0)

AfterStages(e) ==
    IF epic_groups[e].milestones # <<>> THEN Goto("milestones", e, 0, 1) ELSE AfterEpic(e)

AfterHeader(e) ==
    IF epic_groups[e].stages # <<>> THEN Goto("stages", e, 1, 0) ELSE AfterStages(e)

\* a slip of line 527: a 'not' is lost
NoTimelineDataSlip ==
    ~has_gantt_data /\ unlinked_milestones = <<>> /\ all_milestones # <<>>

\* line 527
NoTimelineData ==
    ~has_gantt_data /\ unlinked_milestones = <<>> /\ all_milestones = <<>>

\* lines 509-538: the head of the slide and the choice between the note, the
\* fallback table and the chart
TL_Start ==
    /\ pc = "start"
    /\ IF NoTimelineData
       THEN /\ shapes' = SlideHead \o <<Note("No timeline data available for this project.")>>
            /\ pc' = "done"
       ELSE IF ~has_gantt_data
       THEN /\ shapes' = SlideHead \o FallbackShapes(all_milestones)
            /\ pc' = "done"
       ELSE /\ shapes' = SlideHead
            /\ pc' = "collect"
    /\ UNCHANGED <<varsIn, varsBounds, varsLoop, varsB, varsS, varsR>>

\* lines 540-556: the dates are collected; without any the fallback is drawn
TL_Collect ==
    /\ pc = "collect"
    /\ all_dates' = CollectDates
    /\ IF CollectDates = <<>>
       THEN /\ shapes' = shapes \o FallbackShapes(all_milestones)
            /\ pc' = "done"
       ELSE /\ pc' = "bounds"
            /\ UNCHANGED shapes
    /\ UNCHANGED <<varsIn, min_date, max_date, padding_days, chart_start, chart_end,
                   total_days, varsLoop, varsB, varsS, varsR>>

\* lines 558-565: the bounds of the chart; strptime raises on the first or the
\* last string if it names no day
TL_Bounds ==
    /\ pc = "bounds"
    /\ all_dates' = SortDates(all_dates)
    /\ LET sorted == SortDates(all_dates)
           first == sorted[1]
           last == sorted[Len(sorted)]
       IN  IF ~CanParse(first) \/ ~CanParse(last)
           THEN /\ pc' = "aborted"
                /\ min_date' = IF CanParse(first) THEN ParseDate(first) ELSE min_date
                /\ UNCHANGED <<max_date, padding_days, chart_start, chart_end, total_days>>
           ELSE /\ pc' = "axis"
                /\ min_date' = ParseDate(first)
                /\ max_date' = ParseDate(last)
                /\ padding_days' = Padding(ParseDate(last) - ParseDate(first))
                /\ chart_start' = ParseDate(first) - Padding(ParseDate(last) - ParseDate(first))
                /\ chart_end' = ParseDate(last) + Padding(ParseDate(last) - ParseDate(first))
                /\ total_days' =
                      Max((ParseDate(last) + Padding(ParseDate(last) - ParseDate(first)))
                            - (ParseDate(first) - Padding(ParseDate(last) - ParseDate(first))), 1)
    /\ UNCHANGED <<varsIn, varsLoop, shapes, varsB, varsS, varsR>>

\* lines 583-586: the month axis, then the cursor and the colour index start
TL_Axis ==
    /\ pc = "axis"
    /\ shapes' = shapes \o MonthAxis
    /\ y_cursor' = chart_top + 320040
    /\ color_idx' = 0
    /\ Goto("epic", 1, 0, 0)
    /\ UNCHANGED <<varsIn, varsBounds, varsB, varsS, varsR>>

\* lines 588-603: the header of an epic group, none for a group without
\* stages and milestones
TL_EpicHeader ==
    /\ pc = "epic"
    /\ LET eg == epic_groups[eg_i]
       IN  IF eg.stages = <<>> /\ eg.milestones = <<>>
           THEN /\ AfterEpic(eg_i)
                /\ UNCHANGED <<shapes, y_cursor>>
           ELSE /\ shapes' = Append(shapes,
                       Shape("epic_label", 365760, y_cursor, label_width, epic_header_height, eg_i, ""))
                /\ y_cursor' = y_cursor + epic_header_height
                /\ AfterHeader(eg_i)
    /\ UNCHANGED <<varsIn, varsBounds, color_idx, varsB, varsS, varsR>>

\* where the loop of line 605 goes on after the stage st_i
AfterStage ==
    IF st_i < Len(epic_groups[eg_i].stages) THEN Goto("stages", eg_i, st_i + 1, 0)
    ELSE AfterStages(eg_i)

\* lines 605-644: one stage
TL_Stage ==
    /\ pc = "stages"
    /\ LET stage == epic_groups[eg_i].stages[st_i]
           start_str == stage.startDate
           end_str == stage.endDate
           stage_label == Shape("stage_label", 548640, y_cursor, label_width - 182880,
                                row_height, 0, "")
       IN  IF start_str = NoDate \/ end_str = NoDate
           THEN /\ AfterStage
                /\ UNCHANGED <<shapes, y_cursor, color_idx>>
           ELSE IF ~CanParse(start_str) \/ ~CanParse(end_str)
           THEN /\ shapes' = Append(shapes, stage_label)
                /\ pc' = "aborted"
                /\ UNCHANGED <<y_cursor, color_idx, eg_i, st_i, ms_i>>
           ELSE LET bar_left == date_to_x(start_str)
                    bar_right == date_to_x(end_str)
                    bar_w == BarWidth(bar_left, bar_right)
                    bar_color == bar_colors[(color_idx % Len(bar_colors)) + 1]
                    bar == Shape("bar", bar_left, y_cursor + 54864, bar_w, bar_height,
                                 color_idx, bar_color)
                IN  /\ shapes' = shapes \o <<stage_label, bar>>
                          \o (IF bar_w > bar_label_min_width
                              THEN <<Shape("bar_text", bar_left, y_cursor + 54864, bar_w,
                                           bar_height, 0, "")>>
                              ELSE <<>>)
                    /\ y_cursor' = y_cursor + row_height
                    /\ color_idx' = color_idx + 1
                    /\ AfterStage
    /\ UNCHANGED <<varsIn, varsBounds, varsB, varsS, varsR>>

\* a slip of lines 647-650 and 662-665: the cursor moves on for a milestone
\* without a targetDate as well
MilestoneStepAlwaysAdvances(ms, go) ==
    IF ms.targetDate = NoDate
    THEN /\ go
         /\ y_cursor' = y_cursor + milestone_row_height
         /\ UNCHANGED shapes
    ELSE IF ~CanParse(ms.targetDate)
    THEN /\ pc' = "aborted"
         /\ UNCHANGED <<shapes, y_cursor, eg_i, st_i, ms_i>>
    ELSE /\ shapes' = shapes \o MilestoneDot(ms, y_cursor)
         /\ y_cursor' = y_cursor + milestone_row_height
         /\ go

\* lines 647-650 and 662-665: one milestone of the list ms_list at the cursor;
\* go is where the loop goes on
MilestoneStep(ms, go) ==
    IF ms.targetDate = NoDate
    THEN /\ go
         /\ UNCHANGED <<shapes, y_cursor>>
    ELSE IF ~CanParse(ms.targetDate)
    THEN /\ pc' = "aborted"
         /\ UNCHANGED <<shapes, y_cursor, eg_i, st_i, ms_i>>
    ELSE /\ shapes' = shapes \o MilestoneDot(ms, y_cursor)
         /\ y_cursor' = y_cursor + milestone_row_height
         /\ go

\* lines 646-650: one milestone of an epic group
TL_Milestone ==
    /\ pc = "milestones"
    /\ MilestoneStep(epic_groups[eg_i].milestones[ms_i],
                     IF ms_i < Len(epic_groups[eg_i].milestones)
                     THEN Goto("milestones", eg_i, 0, ms_i + 1)
                     ELSE AfterEpic(eg_i))
    /\ UNCHANGED <<varsIn, varsBounds, color_idx, varsB, varsS, varsR>>

\* lines 652-659: the header of the unlinked milestones, if there are any
TL_UnlinkedHeader ==
    /\ pc = "unlinked"
    /\ IF unlinked_milestones # <<>>
       THEN /\ shapes' = Append(shapes,
                   Shape("ul_label", 365760, y_cursor, label_width, epic_header_height, 0,
                         "Project Milestones"))
            /\ y_cursor' = y_cursor + epic_header_height
            /\ Goto("unlinked_ms", eg_i, 0, 1)
       ELSE /\ Goto("return", eg_i, 0, 0)
            /\ UNCHANGED <<shapes, y_cursor>>
    /\ UNCHANGED <<varsIn, varsBounds, color_idx, varsB, varsS, varsR>>

\* lines 661-665: one unlinked milestone
TL_UnlinkedMilestone ==
    /\ pc = "unlinked_ms"
    /\ MilestoneStep(unlinked_milestones[ms_i],
                     IF ms_i < Len(unlinked_milestones)
                     THEN Goto("unlinked_ms", eg_i, 0, ms_i + 1)
                     ELSE Goto("return", eg_i, 0, 0))
    /\ UNCHANGED <<varsIn, varsBounds, color_idx, varsB, varsS, varsR>>

\* line 667
TL_Return ==
    /\ pc = "return"
    /\ pc' = "done"
    /\ UNCHANGED <<varsIn, varsBounds, varsLoop, shapes, varsB, varsS, varsR>>

Init ==
    /\ epic_groups \in SeqsUpTo(EpicSet, MaxEpics)
    /\ unlinked_milestones \in MilestoneLists
    /\ all_milestones \in TopMilestoneLists
    /\ pc = "start"
    /\ UnsetT
    /\ IdleB /\ IdleS /\ IdleR

Next ==
    \/ TL_Start \/ TL_Collect \/ TL_Bounds \/ TL_Axis \/ TL_EpicHeader \/ TL_Stage
    \/ TL_Milestone \/ TL_UnlinkedHeader \/ TL_UnlinkedMilestone \/ TL_Return

Spec == Init /\ [][Next]_vars

\* create_timeline_slide on the payloads of well-formed dates
InitChart ==
    /\ epic_groups \in SeqsUpTo(ChartEpicSet, MaxEpics)
    /\ unlinked_milestones \in ChartMilestoneLists
    /\ all_milestones = <<>>
    /\ pc = "start"
    /\ UnsetT
    /\ IdleB /\ IdleS /\ IdleR

SpecChart == InitChart /\ [][Next]_vars

(***************************************************************************)
(* Properties of parse_bullet_items                                        *)
(***************************************************************************)
LaunchText == Join(<<LaunchLine, SubDetailLine>>, <<"\n">>)

LaunchItem ==
    [title |-> <<"L", "a", "u", "n", "c", "h">>,
     description |-> <<"s", "h", "i", "p", "p", "e", "d", " ", "v", "1">>,
     sub_items |-> << <<"s", "u", "b", " ", "d", "e", "t", "a", "i", "l">> >>]

\* the line the next iteration of the loop reads
AtLine == pcB = "loop" /\ lines # <<>>

\* the items the parser returns if the input ends here
Returned(its, cur) == IF cur # None THEN Append(its, cur[1]) ELSE its

\* the lines of the text already read
LinesRead == SubSeq(Split(text, "\n"), 1, Len(Split(text, "\n")) - Len(lines))

\* C1: a line that begins with two spaces and a bullet marker, read while an
\* item is in progress, is appended to that item's sub_items and starts no new
\* item; the text "- **Launch** - shipped v1\n  - sub detail" yields the one
\* item (Launch, shipped v1, [sub detail]).
C1_IndentedBulletIsSubItem ==
    [][/\ (AtLine /\ current_item # None /\ IsSubBullet(Head(lines)))
            => /\ items' = items
               /\ current_item' =
                     Some([current_item[1] EXCEPT
                              !.sub_items = Append(@, SubContent(Head(lines)))])
       /\ (text = LaunchText /\ pcB' = "done") => items' = <<LaunchItem>>]_vars

\* the places a line can be accounted for, between the items returned before
\* (b) and after (a) the line was read
InNewItem(b, a, stripped) ==
    /\ Len(a) = Len(b) + 1
    /\ SubSeq(a, 1, Len(b)) = b
    /\ IsSubstring(a[Len(a)].title, stripped)
    /\ IsSubstring(a[Len(a)].description, stripped)
    /\ a[Len(a)].sub_items = <<>>

InDescription(b, a, stripped) ==
    /\ b # <<>>
    /\ a = [b EXCEPT ![Len(b)].description =
                IF @ = <<>> THEN stripped ELSE @ \o <<" ">> \o stripped]

InSubItems(b, a, stripped) ==
    /\ b # <<>>
    /\ \E sub \in {SubSeq(stripped, i, Len(stripped)) : i \in 1..Len(stripped)} :
          a = [b EXCEPT ![Len(b)].sub_items = Append(@, sub)]

ExactlyOne(p, q, r) == (p /\ ~q /\ ~r) \/ (~p /\ q /\ ~r) \/ (~p /\ ~q /\ r)

AccountedOnce ==
    LET b == Returned(items, current_item)
        a == Returned(items', current_item')
        stripped == Strip(Head(lines))
    IN  ExactlyOne(InNewItem(b, a, stripped), InDescription(b, a, stripped),
                   InSubItems(b, a, stripped))

\* C2 as claimed: every non-blank line is accounted for in exactly one place
\* of the returned items (a title, a description or a sub_items entry).
C2_EveryLineAccounted ==
    [][(AtLine /\ Strip(Head(lines)) # <<>>) => AccountedOnce]_vars

\* a bullet line has been read before the line at hand
BulletSeen == \E i \in 1..Len(LinesRead) : IsTopBullet(Strip(LinesRead[i]))

\* C2 as amended: every non-blank line that is a bullet line or follows a
\* bullet line is accounted for in exactly one place of the returned items; a
\* non-blank line that is no bullet line and precedes every bullet line is
\* dropped, and a blank line changes nothing.
C2_LinesFromFirstBulletAccounted ==
    [][AtLine =>
         IF Strip(Head(lines)) = <<>>
         THEN Returned(items', current_item') = Returned(items, current_item)
         ELSE IF IsTopBullet(Strip(Head(lines))) \/ BulletSeen
         THEN AccountedOnce
         ELSE Returned(items', current_item') = Returned(items, current_item)]_vars

\* a continuation line was joined to a description that was not empty
C2_Witness ==
    /\ pcB = "done"
    /\ text = Join(<<LaunchLine, MoreLine, MoreLine>>, <<"\n">>)
    /\ items = <<[title |-> LaunchItem.title,
                  description |-> LaunchItem.description \o <<" ">> \o MoreLine
                                     \o <<" ">> \o MoreLine,
                  sub_items |-> <<>>]>>

(***************************************************************************)
(* Properties of parse_markdown_sections                                   *)
(***************************************************************************)
SourceLines == Split(md_text, "\n")

\* the positions of the lines that begin with '## '
HeadingAt == {i \in 1..Len(SourceLines) : IsHeading(SourceLines[i])}

\* the heading text at position i, without surrounding whitespace
HeadingOf(i) == Strip(SubSeq(SourceLines[i], 4, Len(SourceLines[i])))

\* the position after the body of the heading at position i
BodyEnd(i) ==
    IF \E j \in HeadingAt : j > i
    THEN CHOOSE j \in HeadingAt : j > i /\ \A k \in HeadingAt : k > i => j <= k
    ELSE Len(SourceLines) + 1

\* the trimmed join of the lines between the heading at i and the next heading
BodyOf(i) == Strip(Join(SubSeq(SourceLines, i + 1, BodyEnd(i) - 1), <<"\n">>))

\* C3 as claimed: the keys of the returned map are exactly the heading texts
\* of the '## ' lines, and for every heading line the map holds the pair
\* (heading, body of that heading line).
C3_EveryHeadingPairInMap ==
    pcS = "done" =>
        /\ DOMAIN sections = {HeadingOf(i) : i \in HeadingAt}
        /\ \A i \in HeadingAt :
              HeadingOf(i) \in DOMAIN sections /\ sections[HeadingOf(i)] = BodyOf(i)

\* the last heading line that carries the text k
LastWith(k) ==
    CHOOSE i \in HeadingAt : HeadingOf(i) = k /\ \A j \in HeadingAt : HeadingOf(j) = k => j <= i

\* C3 as amended: the keys of the returned map are exactly the non-empty
\* trimmed heading texts of the '## ' lines, and each key is mapped to the
\* body of the last heading line that carries it.
C3_LastNonEmptyHeadingPairInMap ==
    pcS = "done" =>
        /\ DOMAIN sections = {HeadingOf(i) : i \in HeadingAt} \ {<<>>}
        /\ \A k \in DOMAIN sections : sections[k] = BodyOf(LastWith(k))

\* a heading given twice and an empty heading: the later body is the one kept
C3_Witness ==
    /\ pcS = "done"
    /\ md_text = Join(<<HeadingA, BodyX, HeadingATrail, BodyY>>, <<"\n">>)
    /\ DOMAIN sections = {<<"A">>}
    /\ sections[<<"A">>] = <<"y">>

(***************************************************************************)
(* Properties of render_inline_bold                                        *)
(***************************************************************************)
\* the texts of the runs, concatenated in emission order
RECURSIVE RunsText(_)
RunsText(rs) == IF rs = <<>> THEN <<>> ELSE Head(rs).text \o RunsText(Tail(rs))

\* the text with every occurrence of '**' removed, left to right
RECURSIVE WithoutStars(_)
WithoutStars(s) ==
    IF Len(s) < 2 THEN s
    ELSE IF s[1] = "*" /\ s[2] = "*" THEN WithoutStars(Tail(Tail(s)))
    ELSE <<Head(s)>> \o WithoutStars(Tail(s))

\* the spans of the text in order: those the pattern matches (the even pieces
\* of the split) with their delimiters removed, the others as they are
RECURSIVE Spans(_, _)
Spans(ps, n) ==
    IF ps = <<>> THEN <<>>
    ELSE <<[text |-> IF n % 2 = 0 THEN SubSeq(Head(ps), 3, Len(Head(ps)) - 2) ELSE Head(ps),
            bold |-> (n % 2 = 0)]>> \o Spans(Tail(ps), n + 1)

MatchedSpans == Spans(ReSplit(rib_text), 1)

\* the text with the delimiters of the matched spans removed
WithoutMatchedStars == RunsText(MatchedSpans)

\* C4: the texts of the emitted runs, concatenated in emission order, are the
\* input with every '**' marker removed (read either as every occurrence of
\* '**' or as the delimiters of the matched spans).
C4_RunsConcatenateToInput ==
    pcR = "done" => RunsText(runs) \in {WithoutStars(rib_text), WithoutMatchedStars}

\* C5: a run is bold only when it is a span matched by the pattern, every span
\* between matches is a plain run, and no run has an empty text: the runs are
\* the spans of the text that are not empty, in order.
C5_BoldOnlyMatchedNoEmptyRun ==
    pcR = "done" =>
        /\ runs = SelectSeq(MatchedSpans, LAMBDA sp : sp.text # <<>>)
        /\ \A i \in 1..Len(runs) : runs[i].text # <<>>

(***************************************************************************)
(* Properties of create_timeline_slide                                     *)
(***************************************************************************)
\* the chart bounds have been computed (total_days is 0 before, at least 1 after)
BoundsSet == total_days > 0

\* the set of the members of a sequence
Range(seq) == {seq[i] : i \in 1..Len(seq)}

\* the least and the greatest of a set of date strings
LeastOf(strs) == CHOOSE a \in strs : \A b \in strs : DateStrLE(a, b)
GreatestOf(strs) == CHOOSE a \in strs : \A b \in strs : DateStrLE(b, a)

\* round(0.05 * span): to the nearest whole number, a tie to the even one
Round5Percent(span) ==
    LET q == (span * 5) \div 100
        r == (span * 5) % 100
    IN  IF r > 50 THEN q + 1
        ELSE IF r < 50 THEN q
        ELSE IF q % 2 = 0 THEN q ELSE q + 1

\* cut(0.05 * span): the whole part
Cut5Percent(span) == (span * 5) \div 100

\* the bounds are min date - pad and max date + pad, over the collected date
\* strings of the payload, with pad = max(7, Pad(span))
BoundsPaddedBy(Pad(_)) ==
    LET collected == Range(CollectDates)
        min == ParseDate(LeastOf(collected))
        max == ParseDate(GreatestOf(collected))
        pad == Max(7, Pad(max - min))
    IN  /\ padding_days = pad
        /\ chart_start = min - pad
        /\ chart_end = max + pad

\* the payload of one stage 2024-01-01..2024-01-31 and no milestone
OneStagePayload ==
    /\ epic_groups = <<[stages |-> <<StageJan>>, milestones |-> <<>>]>>
    /\ unlinked_milestones = <<>>

OneStageBounds ==
    /\ padding_days = 7
    /\ chart_start = ToOrdinal(2023, 12, 25)
    /\ chart_end = ToOrdinal(2024, 2, 7)

\* C6 as claimed: the chart bounds are min date - pad_days and max date +
\* pad_days with pad_days = max(7, round(0.05 * span)); one stage
\* 2024-01-01..2024-01-31 gives 7, 2023-12-25 and 2024-02-07.
C6_PaddingIsRounded ==
    BoundsSet =>
        /\ BoundsPaddedBy(Round5Percent)
        /\ OneStagePayload => OneStageBounds

\* C6 as amended: the chart bounds are min date - pad_days and max date +
\* pad_days with pad_days = max(7, int(0.05 * span)), the product cut to a
\* whole number; one stage 2024-01-01..2024-01-31 gives 7, 2023-12-25 and
\* 2024-02-07.
C6_PaddingIsTruncated ==
    BoundsSet =>
        /\ BoundsPaddedBy(Cut5Percent)
        /\ OneStagePayload => OneStageBounds

\* a span of 150 days, where 0.05 * span = 7.5 is cut to 7
C6_Witness ==
    /\ pc = "done"
    /\ BoundsSet
    /\ max_date - min_date = 150
    /\ padding_days = 7
    /\ chart_end - chart_start = 164

\* the date strings of the payload that name a day
Drawable == {ds \in Range(all_dates) : CanParse(ds)}

\* C7: date_to_x is strictly monotonic on the chart bounds: for days d1 < d2
\* in [chart_start, chart_end], x(d1) < x(d2).  Stated for every two
\* successive days of the bounds (which gives every pair) and for every two
\* dates of the payload; successive days are more than one EMU apart.  The
\* mapping depends on chart_start and total_days only, which are final once
\* the axis is about to be drawn.
C7_DateToXStrictlyMonotonic ==
    pc = "axis" =>
        /\ \A d \in chart_start..(chart_end - 1) : XOfDay(d) + 1 < XOfDay(d + 1)
        /\ \A a, b \in Drawable :
              ParseDate(a) < ParseDate(b) => date_to_x(a) < date_to_x(b)
        /\ \A a \in Drawable :
              chart_start <= ParseDate(a) /\ ParseDate(a) <= chart_end

\* a bar was drawn from an earlier start to a later end
C7_Witness ==
    /\ pc = "done"
    /\ \E i \in 1..Len(shapes) :
          /\ shapes[i].kind = "bar"
          /\ shapes[i].x = date_to_x(Jan01)
          /\ shapes[i].x + shapes[i].w = date_to_x(Jan31)
          /\ shapes[i].w > min_bar_width

\* the bars on the slide
Bars(shs) == SelectSeq(shs, LAMBDA sh : sh.kind = "bar")

\* C8: every stage bar drawn has the width max(x(endDate) - x(startDate),
\* minimum width), hence a positive width of at least 0.1 inch, also when the
\* endDate equals or precedes the startDate.
C8_BarWidthFloored ==
    [][(pc = "stages" /\ pc' # "aborted"
          /\ epic_groups[eg_i].stages[st_i].startDate # NoDate
          /\ epic_groups[eg_i].stages[st_i].endDate # NoDate)
        => LET stage == epic_groups[eg_i].stages[st_i]
               drawn == Bars(shapes')
           IN  /\ Len(drawn) = Len(Bars(shapes)) + 1
               /\ drawn[Len(drawn)].w =
                     Max(date_to_x(stage.endDate) - date_to_x(stage.startDate), 91440)
               /\ \A i \in 1..Len(drawn) : drawn[i].w >= 91440 /\ drawn[i].w > 0]_vars

\* a stage whose end precedes its start was drawn with the least width
C8_Witness ==
    /\ pc = "done"
    /\ epic_groups # <<>>
    /\ epic_groups[1].stages = <<StageBackwards, StageJan>>
    /\ Bars(shapes) # <<>>
    /\ Bars(shapes)[1].w = 91440
    /\ Bars(shapes)[1].x = date_to_x(Jan31)

ChartKinds == {"axis_line", "tick", "tick_label", "epic_label", "stage_label", "bar",
               "bar_text", "dot", "ms_label", "ul_label"}
TableKinds == {"table", "table_row"}

EmptyPayload ==
    epic_groups = <<>> /\ unlinked_milestones = <<>> /\ all_milestones = <<>>

\* C9: with no epic groups, no unlinked milestones and no top-level
\* milestones the slide carries the note "No timeline data available for this
\* project." and neither a chart nor a milestone table.
C9_NoDataNote ==
    EmptyPayload =>
        /\ \A i \in 1..Len(shapes) : shapes[i].kind \notin ChartKinds \cup TableKinds
        /\ pc \in {"start", "done"}
        /\ pc = "done" =>
              /\ \E i \in 1..Len(shapes) :
                    /\ shapes[i].kind = "note"
                    /\ shapes[i].s = "No timeline data available for this project."
              /\ \A i \in 1..Len(shapes) :
                    shapes[i].kind = "note"
                       => shapes[i].s = "No timeline data available for this project."

C9_Witness ==
    /\ EmptyPayload
    /\ pc = "done"
    /\ Len(SelectSeq(shapes, LAMBDA sh : sh.kind = "note")) = 1

\* the stages and milestones of the payload whose dates are all there and parse
StageParses(st) == CanParse(st.startDate) /\ CanParse(st.endDate)
MilestoneParses(ms) == CanParse(ms.targetDate)

RECURSIVE DrawableStages(_)
DrawableStages(egs) ==
    IF egs = <<>> THEN 0
    ELSE Len(SelectSeq(Head(egs).stages, StageParses)) + DrawableStages(Tail(egs))

RECURSIVE DrawableMilestones(_)
DrawableMilestones(egs) ==
    IF egs = <<>> THEN 0
    ELSE Len(SelectSeq(Head(egs).milestones, MilestoneParses)) + DrawableMilestones(Tail(egs))

\* C10: a date string that does not parse never aborts the render: the slide
\* is completed, the element with the bad date is left out and every other
\* element is drawn.
C10_BadDateNeverAborts ==
    /\ pc # "aborted"
    /\ (pc = "done" /\ BoundsSet) =>
          /\ Len(Bars(shapes)) = DrawableStages(epic_groups)
          /\ Len(SelectSeq(shapes, LAMBDA sh : sh.kind = "dot")) =
                DrawableMilestones(epic_groups)
                   + Len(SelectSeq(unlinked_milestones, MilestoneParses))

(***************************************************************************)
(* Properties of the chart rows                                            *)
(***************************************************************************)
\* the chart is being drawn or has been drawn
OnGanttPath == BoundsSet /\ pc \in {"epic", "stages", "milestones", "unlinked", "unlinked_ms",
                                     "return", "done"}

\* the elements that open a row: the headers and the labels of the stage and
\* milestone rows
RowKinds == {"epic_label", "stage_label", "ms_label", "ul_label"}
Rows(shs) == SelectSeq(shs, LAMBDA sh : sh.kind \in RowKinds)

\* the kind of a row and, for an epic header, its epic group
RowTag(sh) == <<sh.kind, sh.n>>

\* the rows the payload asks for, in the order claimed
RECURSIVE StageTags(_)
StageTags(stages) ==
    IF stages = <<>> THEN <<>>
    ELSE (IF Head(stages).startDate # NoDate /\ Head(stages).endDate # NoDate
          THEN << <<"stage_label", 0>> >> ELSE <<>>) \o StageTags(Tail(stages))

RECURSIVE MilestoneTags(_)
MilestoneTags(ms_list) ==
    IF ms_list = <<>> THEN <<>>
    ELSE (IF Head(ms_list).targetDate # NoDate THEN << <<"ms_label", 0>> >> ELSE <<>>)
         \o MilestoneTags(Tail(ms_list))

RECURSIVE EpicTags(_, _)
EpicTags(egs, e) ==
    IF e > Len(egs) THEN <<>>
    ELSE (IF egs[e].stages = <<>> /\ egs[e].milestones = <<>> THEN <<>>
          ELSE << <<"epic_label", e>> >> \o StageTags(egs[e].stages)
                  \o MilestoneTags(egs[e].milestones))
         \o EpicTags(egs, e + 1)

ExpectedTags ==
    EpicTags(epic_groups, 1)
       \o (IF unlinked_milestones # <<>>
           THEN << <<"ul_label", 0>> >> \o MilestoneTags(unlinked_milestones) ELSE <<>>)

\* a bar lies in the row of the stage label before it, a marker in the row
\* of the milestone label after it
InsideRow(sh, row) == row.y <= sh.y /\ sh.y + sh.h <= row.y + row.h

MarksInsideRows(shs) ==
    \A i \in 1..Len(shs) :
       /\ shs[i].kind \in {"bar", "bar_text"}
             => \E j \in {i - 1, i - 2} :
                   j >= 1 /\ shs[j].kind = "stage_label" /\ InsideRow(shs[i], shs[j])
       /\ shs[i].kind = "dot"
             => i < Len(shs) /\ shs[i + 1].kind = "ms_label" /\ InsideRow(shs[i], shs[i + 1])

\* C11: on the Gantt path the vertical cursor only increases; every element
\* drawn (epic header, stage row, milestone row, 'Project Milestones' header)
\* is placed at the cursor, which then moves past its row, so that the rows
\* are at distinct places and no two overlap; the elements come in the order:
\* for each epic group its header, its stages, its milestones, and after all
\* epic groups the unlinked milestones under a 'Project Milestones' header.
C11_RowsOrderedAndApart ==
    [][OnGanttPath =>
         LET before == Rows(shapes)
             after == Rows(shapes')
             tags == [i \in 1..Len(after) |-> RowTag(after[i])]
         IN  /\ y_cursor' >= y_cursor
             /\ Len(after) \in {Len(before), Len(before) + 1}
             /\ Len(after) = Len(before) + 1
                   => /\ after[Len(after)].y = y_cursor
                      /\ y_cursor' >= y_cursor + after[Len(after)].h
                      /\ y_cursor' > y_cursor
             /\ \A i \in 1..(Len(after) - 1) :
                   after[i].y + after[i].h <= after[i + 1].y /\ after[i].y < after[i + 1].y
             /\ MarksInsideRows(shapes')
             /\ Len(tags) <= Len(ExpectedTags)
             /\ tags = SubSeq(ExpectedTags, 1, Len(tags))
             /\ pc' = "done" => tags = ExpectedTags]_vars

\* two epic groups with stages and milestones and the unlinked milestones were
\* drawn, eight rows one below the other
C11_Witness ==
    /\ pc = "done"
    /\ OnGanttPath
    /\ Len(epic_groups) = 2
    /\ [i \in 1..Len(Rows(shapes)) |-> Rows(shapes)[i].kind] =
          <<"epic_label", "stage_label", "ms_label", "epic_label", "stage_label", "ms_label",
            "ul_label", "ms_label">>
    /\ y_cursor = chart_top + 320040 + 3 * epic_header_height + 2 * row_height
                      + 3 * 256032

(***************************************************************************)
(* Properties of _draw_month_axis                                          *)
(***************************************************************************)
Months == Years \X (1..12)
FirstDay(ym) == ToOrdinal(ym[1], ym[2], 1)
LastDay(ym) == FirstDay(ym) + DaysInMonth(ym[1], ym[2]) - 1
MonthNo(ym) == ym[1] * 100 + ym[2]

\* the months from the one chart_start lies in to the one chart_end lies in
MonthsSpanned == {ym \in Months : LastDay(ym) >= chart_start /\ FirstDay(ym) <= chart_end}

\* the months whose first day lies in the chart bounds
MonthsBegun == {ym \in Months : chart_start <= FirstDay(ym) /\ FirstDay(ym) <= chart_end}

\* the slide has exactly one tick and one label for every month of the set,
\* at the x of its first day, and no other tick or label
OneTickEach(months) ==
    LET ticks == SelectSeq(shapes, LAMBDA sh : sh.kind = "tick")
        labels == SelectSeq(shapes, LAMBDA sh : sh.kind = "tick_label")
    IN  /\ Len(ticks) = Cardinality(months)
        /\ Len(labels) = Cardinality(months)
        /\ \A ym \in months :
              /\ \E i \in 1..Len(ticks) :
                    ticks[i].n = MonthNo(ym) /\ ticks[i].x = XOfDay(FirstDay(ym))
              /\ \E i \in 1..Len(labels) :
                    labels[i].n = MonthNo(ym) /\ labels[i].x = XOfDay(FirstDay(ym)) - 274320

\* C12 as claimed: _draw_month_axis emits exactly one tick and label for every
\* calendar month from the month containing chart_start through the month
\* containing chart_end, both inclusive, each at x(first day of that month).
C12_TickEveryMonthSpanned == OnGanttPath => OneTickEach(MonthsSpanned)

\* C12 as amended: _draw_month_axis emits exactly one tick and label for every
\* calendar month whose first day lies in [chart_start, chart_end], each at
\* x(first day of that month); the month containing chart_start has a tick
\* only if chart_start is its first day.
C12_TickEveryMonthBegun == OnGanttPath => OneTickEach(MonthsBegun)

\* the bounds 2024-01-01 and 2024-02-01: a tick at either end of the chart
C12_Witness ==
    /\ pc = "done"
    /\ chart_start = ToOrdinal(2024, 1, 1)
    /\ chart_end = ToOrdinal(2024, 2, 1)
    /\ OneTickEach({<<2024, 1>>, <<2024, 2>>})
    /\ \E i, j \in 1..Len(shapes) :
          /\ shapes[i].kind = "tick" /\ shapes[i].x = chart_left
          /\ shapes[j].kind = "tick" /\ shapes[j].x = chart_left + chart_width

(***************************************************************************)
(* Properties of the fallback path                                         *)
(***************************************************************************)
\* no stage of any epic group has both a startDate and an endDate
NoFullStage ==
    \A e \in 1..Len(epic_groups) : \A i \in 1..Len(epic_groups[e].stages) :
       epic_groups[e].stages[i].startDate = NoDate \/ epic_groups[e].stages[i].endDate = NoDate

\* C13: create_timeline_slide takes the fallback path (the flat milestone
\* table, no Gantt chart) whenever no stage of any epic group has both a
\* startDate and an endDate, and the table has at most 15 milestone rows.
\* Read with the no-data note of line 527 and the note of an empty table
\* counted as the fallback.
C13_FallbackWithoutFullStage ==
    /\ NoFullStage => \A i \in 1..Len(shapes) : shapes[i].kind \notin ChartKinds
    /\ (NoFullStage /\ pc = "done" /\ all_milestones # <<>>)
          => Len(SelectSeq(shapes, LAMBDA sh : sh.kind = "table")) = 1
    /\ Len(SelectSeq(shapes, LAMBDA sh : sh.kind = "table_row")) <= 15
    /\ \A i \in 1..Len(shapes) : shapes[i].kind = "table" => shapes[i].n <= 15 + 1

(***************************************************************************)
(* Properties of the bar colours                                           *)
(***************************************************************************)
\* the fixed palette of eight colours, in its order
Palette ==
    <<"#6366f1", "#8b5cf6", "#a78bfa", "#7c3aed", "#4f46e5", "#818cf8", "#c084fc", "#a855f7">>

\* C14: the k-th stage bar drawn on the chart (k from 0, over all epic groups
\* in draw order, never reset between epic groups) is filled with
\* palette[k mod palette_length] of the fixed palette of eight colours.
C14_BarColourCycles ==
    LET drawn == Bars(shapes)
    IN  /\ \A i \in 1..Len(drawn) : drawn[i].s = Palette[((i - 1) % 8) + 1]
        /\ OnGanttPath => color_idx = Len(drawn)

\* ten bars in two epic groups: the ninth, the fourth of the second group,
\* has the first colour again and the tenth the second
C14_Witness ==
    /\ pc = "done"
    /\ Len(epic_groups) = 2
    /\ epic_groups[1].stages = StageRun
    /\ epic_groups[2].stages = StageRun
    /\ Len(Bars(shapes)) = 10
    /\ Bars(shapes)[6].s = "#818cf8"
    /\ Bars(shapes)[8].s = "#a855f7"
    /\ Bars(shapes)[9].s = "#6366f1"
    /\ Bars(shapes)[10].s = "#8b5cf6"

(***************************************************************************)
(* Properties of the skipped stages and milestones                         *)
(***************************************************************************)
StageSkipped(st) == st.startDate = NoDate \/ st.endDate = NoDate
MilestoneSkipped(ms) == ms.targetDate = NoDate

\* the step at hand is the one of a stage or milestone that is skipped
AtSkipped ==
    \/ pc = "stages" /\ StageSkipped(epic_groups[eg_i].stages[st_i])
    \/ pc = "milestones" /\ MilestoneSkipped(epic_groups[eg_i].milestones[ms_i])
    \/ pc = "unlinked_ms" /\ MilestoneSkipped(unlinked_milestones[ms_i])

\* the payload without its skipped stages and milestones
StagesKept(stages) == SelectSeq(stages, LAMBDA st : ~StageSkipped(st))
MilestonesKept(ms_list) == SelectSeq(ms_list, LAMBDA ms : ~MilestoneSkipped(ms))
EpicsKept(egs) ==
    [e \in 1..Len(egs) |-> [stages |-> StagesKept(egs[e].stages),
                            milestones |-> MilestonesKept(egs[e].milestones)]]

\* the stages and milestones of a payload in the order they are visited:
\* TRUE for one that is skipped
RECURSIVE SkipsOf(_)
SkipsOf(egs) ==
    IF egs = <<>> THEN <<>>
    ELSE [i \in 1..Len(Head(egs).stages) |-> StageSkipped(Head(egs).stages[i])]
         \o [i \in 1..Len(Head(egs).milestones) |-> MilestoneSkipped(Head(egs).milestones[i])]
         \o SkipsOf(Tail(egs))

AllSkips ==
    SkipsOf(epic_groups)
       \o [i \in 1..Len(unlinked_milestones) |-> MilestoneSkipped(unlinked_milestones[i])]

\* the number of bars and markers drawn before the first skipped element (all
\* of them if none is skipped)
DrawnBeforeFirstSkip ==
    IF \E i \in 1..Len(AllSkips) : AllSkips[i]
    THEN (CHOOSE i \in 1..Len(AllSkips) : AllSkips[i] /\ \A j \in 1..(i - 1) : ~AllSkips[j]) - 1
    ELSE Len(AllSkips)

\* a bar or a marker: its place, its width and its colour
Mark(kind, x, y, w, s) == [kind |-> kind, x |-> x, y |-> y, w |-> w, s |-> s]

\* the bars and markers on the slide
MarksOn(shs) ==
    LET marks == SelectSeq(shs, LAMBDA sh : sh.kind \in {"bar", "dot"})
    IN  [i \in 1..Len(marks) |->
            Mark(marks[i].kind, marks[i].x, marks[i].y, marks[i].w, marks[i].s)]

\* the bars and markers of a payload, from the top y and the colour index k
\* on, for a chart that starts at the day cs and spans td days: every stage
\* with both dates is a bar in a row of its own, every milestone with a
\* targetDate a marker in a row of its own; the result also carries the
\* cursor and the colour index after them
XIn(d, cs, td) == chart_left + TruncDiv(chart_width * (d - cs), td)

RECURSIVE StageMarks(_, _, _, _, _)
StageMarks(stages, y, k, cs, td) ==
    IF stages = <<>> THEN [marks |-> <<>>, y |-> y, k |-> k]
    ELSE IF StageSkipped(Head(stages)) THEN StageMarks(Tail(stages), y, k, cs, td)
    ELSE LET left == XIn(ParseDate(Head(stages).startDate), cs, td)
             right == XIn(ParseDate(Head(stages).endDate), cs, td)
             rest == StageMarks(Tail(stages), y + 320040, k + 1, cs, td)
         IN  [rest EXCEPT !.marks =
                 <<Mark("bar", left, y + 54864, Max(right - left, 91440), Palette[(k % 8) + 1])>>
                    \o @]

RECURSIVE MilestoneMarks(_, _, _, _)
MilestoneMarks(ms_list, y, cs, td) ==
    IF ms_list = <<>> THEN [marks |-> <<>>, y |-> y]
    ELSE IF MilestoneSkipped(Head(ms_list)) THEN MilestoneMarks(Tail(ms_list), y, cs, td)
    ELSE LET rest == MilestoneMarks(Tail(ms_list), y + 256032, cs, td)
         IN  [rest EXCEPT !.marks =
                 <<Mark("dot", XIn(ParseDate(Head(ms_list).targetDate), cs, td) - 82296,
                        y + 36576, 164592, DotColor(Head(ms_list).status))>> \o @]

RECURSIVE EpicMarks(_, _, _, _, _)
EpicMarks(egs, y, k, cs, td) ==
    IF egs = <<>> THEN [marks |-> <<>>, y |-> y]
    ELSE IF Head(egs).stages = <<>> /\ Head(egs).milestones = <<>>
    THEN EpicMarks(Tail(egs), y, k, cs, td)
    ELSE LET bars == StageMarks(Head(egs).stages, y + 274320, k, cs, td)
             dots == MilestoneMarks(Head(egs).milestones, bars.y, cs, td)
             rest == EpicMarks(Tail(egs), dots.y, bars.k, cs, td)
         IN  [rest EXCEPT !.marks = bars.marks \o dots.marks \o @]

\* the bars and markers the slide of the payload (egs, ul) has: none without
\* a chart
MarksFor(egs, ul) ==
    LET dates == Range(EpicDates(egs) \o MilestoneDates(ul))
    IN  IF (\A e \in 1..Len(egs) : egs[e].stages = <<>>) \/ dates = {} THEN <<>>
        ELSE LET min == ParseDate(LeastOf(dates))
                 max == ParseDate(GreatestOf(dates))
                 pad == Max(7, (5 * (max - min)) \div 100)
                 cs == min - pad
                 td == Max(max + pad - cs, 1)
                 linked == EpicMarks(egs, chart_top + 320040, 0, cs, td)
             IN  linked.marks
                    \o (IF ul = <<>> THEN <<>>
                        ELSE MilestoneMarks(ul, linked.y + 274320, cs, td).marks)

\* s without its first p members
From(s, p) == SubSeq(s, p + 1, Len(s))

\* the bars and markers that follow the first skipped element are those of
\* the payload without its skipped elements
LaterMarksAsIfAbsent ==
    LET p == DrawnBeforeFirstSkip
    IN  From(MarksOn(shapes), p)
           = From(MarksFor(EpicsKept(epic_groups), MilestonesKept(unlinked_milestones)), p)

\* a skipped element draws nothing and leaves the cursor and the colour index
SkipLeavesAll ==
    AtSkipped => shapes' = shapes /\ y_cursor' = y_cursor /\ color_idx' = color_idx

\* C15 as claimed: on the Gantt path a stage lacking startDate or endDate and
\* a milestone lacking targetDate draw nothing and leave the vertical cursor
\* and the colour index unchanged, so that the positions and colours of all
\* later elements are as if the skipped element were absent from the input.
C15_SkippedAsIfAbsent ==
    [][/\ SkipLeavesAll
       /\ (pc = "return" /\ OnGanttPath) => LaterMarksAsIfAbsent]_vars

\* no skipped stage carries a date
SkippedCarryNoDate ==
    \A e \in 1..Len(epic_groups) : \A i \in 1..Len(epic_groups[e].stages) :
       LET st == epic_groups[e].stages[i]
       IN  StageSkipped(st) => st.startDate = NoDate /\ st.endDate = NoDate

\* the lists the code tests for emptiness (lines 526, 593, 652) are empty
\* without the skipped elements only if they are empty with them
SameListsEmpty ==
    LET kept == EpicsKept(epic_groups)
    IN  /\ \E e \in 1..Len(kept) : kept[e].stages # <<>>
        /\ \A e \in 1..Len(kept) :
              (kept[e].stages = <<>> /\ kept[e].milestones = <<>>)
                 => (epic_groups[e].stages = <<>> /\ epic_groups[e].milestones = <<>>)
        /\ MilestonesKept(unlinked_milestones) = <<>> => unlinked_milestones = <<>>

\* C15 as amended: on the Gantt path a stage lacking startDate or endDate and
\* a milestone lacking targetDate draw nothing and leave the vertical cursor
\* and the colour index unchanged; the positions and colours of all later
\* bars and markers are as if the skipped elements were absent from the
\* input, provided that no skipped stage carries a date and that no list the
\* code tests for emptiness is emptied by leaving them out.
C15_SkippedAsIfAbsentKeepingLists ==
    [][/\ SkipLeavesAll
       /\ (pc = "return" /\ OnGanttPath /\ SkippedCarryNoDate /\ SameListsEmpty)
             => LaterMarksAsIfAbsent]_vars

\* a stage and two milestones were skipped, and the bar and the two markers
\* after them are where they are without them
C15_Witness ==
    /\ pc = "done"
    /\ epic_groups = <<[stages |-> <<StageUndated, StageJan>>,
                         milestones |-> <<MilestoneUndated, MilestoneMay>>]>>
    /\ unlinked_milestones = <<MilestoneUndated, MilestoneMay>>
    /\ SkippedCarryNoDate /\ SameListsEmpty
    /\ DrawnBeforeFirstSkip = 0
    /\ MarksOn(shapes) =
          MarksFor(<<[stages |-> <<StageJan>>, milestones |-> <<MilestoneMay>>]>>,
                   <<MilestoneMay>>)
    /\ Len(MarksOn(shapes)) = 3
    /\ MarksOn(shapes)[1].y = chart_top + 320040 + 274320 + 54864
    /\ MarksOn(shapes)[1].s = "#6366f1"
    /\ y_cursor = chart_top + 320040 + 2 * 274320 + 320040 + 2 * 256032

(***************************************************************************)
(* Properties of the chart area                                            *)
(***************************************************************************)
\* the right edge of the chart area
chart_right == chart_left + chart_width

\* C16: for well-formed dates every date that is drawn lies in [chart_start,
\* chart_end], so that the left edge of every stage bar and the centre of
\* every milestone marker lie in [chart_left, chart_left + chart_width], and
\* the right edge of every stage bar (its left edge plus its floored width)
\* does not exceed chart_left + chart_width.
C16_DrawnInsideChart ==
    OnGanttPath =>
        /\ \A i \in 1..Len(all_dates) :
              chart_start <= ParseDate(all_dates[i]) /\ ParseDate(all_dates[i]) <= chart_end
        /\ \A i \in 1..Len(shapes) :
              /\ shapes[i].kind = "bar"
                    => /\ chart_left <= shapes[i].x /\ shapes[i].x <= chart_right
                       /\ shapes[i].x + shapes[i].w <= chart_right
              /\ shapes[i].kind = "dot"
                    => /\ chart_left <= shapes[i].x + 82296
                       /\ shapes[i].x + 82296 <= chart_right

\* a bar of the least width that starts at the latest date of the payload:
\* it ends in the padding
C16_Witness ==
    /\ pc = "done"
    /\ OnGanttPath
    /\ \E i \in 1..Len(shapes) :
          /\ shapes[i].kind = "bar"
          /\ shapes[i].x = XOfDay(max_date)
          /\ shapes[i].w = 91440
          /\ shapes[i].x + shapes[i].w > XOfDay(max_date)
          /\ shapes[i].x + shapes[i].w < chart_right

====
